---------------------------- MODULE Spec2Model ----------------------------
(***************************************************************************)
(* A model of the container MCP server (src/src/server.py).                *)
(*                                                                         *)
(* Two groups of state:                                                    *)
(*   - the synchronous request handlers (get_weather, sum_numbers,         *)
(*     calculation_helper_prompt, the /health route): the variable `call`  *)
(*     holds the last request handled and its answer, the registries and   *)
(*     the server object are `tools`, `prompts`, `has_prompts_attr`;       *)
(*   - the suspending tool context_info, run concurrently for several      *)
(*     requests on several sessions: one program counter per request, one  *)
(*     outbound event channel per session.                                 *)
(*                                                                         *)
(* Numbers that the code writes as decimal literals with one fractional    *)
(* digit are written here in tenths (185 is 18.5).  Python floats are      *)
(* IEEE-754 binary64 values: sign, exponent of the leading bit, and the    *)
(* 53 significand bits as a sequence (most significant first).             *)
(***************************************************************************)
EXTENDS Integers, Sequences, FiniteSets, TLC

VARIABLES
    call,              \* last synchronous request handled: [op, args.., result]
    tools,             \* FastMCP tool registry, in registration order
    prompts,           \* FastMCP prompt registry, in registration order
    has_prompts_attr,  \* whether the server object has an attribute _prompts
    phase,             \* "init" before run_server/create_app, then "serving"
    json_response,     \* mcp.json_response
    cli_json,          \* the json_response argument run_server was started with
    policy,            \* full-channel policy of the outbound channel
    sess,              \* session -> "open" | "closed"
    chan,              \* session -> outbound event channel (FIFO)
    pc,                \* request -> position of its context_info coroutine
    rsess,             \* request -> session it arrived on (0: none yet)
    mode,              \* request -> delivery mode it is served in
    trace,             \* request -> events produced for it, in order
    observed,          \* request -> the event last delivered to the client for it
    fullMet,           \* some emit met a full channel
    absorbedAny,       \* some emit was absorbed by a closed session
    reqid              \* request -> request id read by the callable

tvars == <<call, tools, prompts, has_prompts_attr>>
dvars == <<phase, json_response, cli_json, policy, sess, chan, pc, rsess, mode,
           trace, observed, fullMet, absorbedAny, reqid>>
vars == <<call, tools, prompts, has_prompts_attr, phase, json_response, cli_json,
          policy, sess, chan, pc, rsess, mode, trace, observed, fullMet,
          absorbedAny, reqid>>

(***************************************************************************)
(* Bounds of the model.                                                    *)
(***************************************************************************)
MaxTenths == 37
NumSessions == 2
MaxRequests == 2
ChanCap == 1

(***************************************************************************)
(* IEEE-754 binary64 (Python float).                                       *)
(***************************************************************************)
Precision == 53

Zeros(n) == [i \in 1..n |-> 0]

FZero == [s |-> 0, e |-> 0, m |-> <<>>]

IsZero(x) == x.m = <<>>

\* `bits` without its leading zeros.
StripLeading(bits) ==
    IF \A i \in 1..Len(bits) : bits[i] = 0 THEN <<>>
    ELSE LET first == CHOOSE i \in 1..Len(bits) :
                          bits[i] = 1 /\ \A k \in 1..(i - 1) : bits[k] = 0
         IN  SubSeq(bits, first, Len(bits))

\* The carry that the positions below i (i+1..Len) send into position i.
CarryInto(X, Y, i) ==
    \E j \in (i + 1)..Len(X) :
        /\ X[j] = 1 /\ Y[j] = 1
        /\ \A k \in (i + 1)..(j - 1) : X[k] + Y[k] = 1

\* X + Y for bit sequences of equal length; the result is one bit longer.
AddBits(X, Y) ==
    [i \in 1..(Len(X) + 1) |->
        LET c == IF CarryInto(X, Y, i - 1) THEN 1 ELSE 0
        IN  IF i = 1 THEN c ELSE (X[i - 1] + Y[i - 1] + c) % 2]

\* The borrow that the positions below i take from position i in X - Y.
BorrowFrom(X, Y, i) ==
    \E j \in (i + 1)..Len(X) :
        /\ X[j] < Y[j]
        /\ \A k \in (i + 1)..(j - 1) : X[k] = Y[k]

\* X - Y for bit sequences of equal length with X >= Y.
SubBits(X, Y) ==
    [i \in 1..Len(X) |->
        LET b == IF BorrowFrom(X, Y, i) THEN 1 ELSE 0
        IN  (X[i] - Y[i] - b + 2) % 2]

\* X < Y as unsigned integers of equal length.
LessBits(X, Y) ==
    \E j \in 1..Len(X) : X[j] < Y[j] /\ \A k \in 1..(j - 1) : X[k] = Y[k]

Increment(bits) == AddBits(bits, Zeros(Len(bits) - 1) \o <<1>>)

\* Round to nearest, ties to even: `bits` has a leading 1 at exponent e and
\* any length; `sticky` says non-zero bits follow beyond `bits`.
Round53(sign, e, bits, sticky) ==
    IF Len(bits) <= Precision
    THEN [s |-> sign, e |-> e, m |-> bits \o Zeros(Precision - Len(bits))]
    ELSE LET m     == SubSeq(bits, 1, Precision)
             guard == bits[Precision + 1]
             rest  == sticky \/ \E i \in (Precision + 2)..Len(bits) : bits[i] = 1
             up    == guard = 1 /\ (rest \/ m[Precision] = 1)
             inc   == Increment(m)
         IN  IF ~up THEN [s |-> sign, e |-> e, m |-> m]
             ELSE IF inc[1] = 1
                  THEN [s |-> sign, e |-> e + 1, m |-> SubSeq(inc, 1, Precision)]
                  ELSE [s |-> sign, e |-> e, m |-> Tail(inc)]

RECURSIVE Normalise(_, _, _)
\* <<num, den, e>> with den <= num < 2 * den and num/den * 2^e unchanged.
Normalise(num, den, e) ==
    IF num >= 2 * den THEN Normalise(num, 2 * den, e + 1)
    ELSE IF num < den THEN Normalise(2 * num, den, e - 1)
    ELSE <<num, den, e>>

RECURSIVE QuotientBits(_, _, _)
\* The first k binary digits of num/den (num < 2 * den).
QuotientBits(num, den, k) ==
    IF k = 0 THEN <<>>
    ELSE LET b == IF num >= den THEN 1 ELSE 0
         IN  <<b>> \o QuotientBits(2 * (num - b * den), den, k - 1)

RECURSIVE QuotientRem(_, _, _)
QuotientRem(num, den, k) ==
    IF k = 0 THEN num
    ELSE LET b == IF num >= den THEN 1 ELSE 0
         IN  QuotientRem(2 * (num - b * den), den, k - 1)

\* The float nearest to the decimal n/10: what parsing the literal gives.
FromTenths(n) ==
    IF n = 0 THEN FZero
    ELSE LET a == IF n < 0 THEN -n ELSE n
             q == Normalise(a, 10, 0)
         IN  Round53(IF n < 0 THEN 1 ELSE 0, q[3],
                     QuotientBits(q[1], q[2], Precision + 2),
                     QuotientRem(q[1], q[2], Precision + 2) # 0)

FNeg(x) == IF IsZero(x) THEN x ELSE [x EXCEPT !.s = 1 - x.s]

\* x + y for non-zero x, y with x.e >= y.e: the exact sum, rounded.
FAddOrdered(x, y) ==
    LET d    == x.e - y.e
        X    == x.m \o Zeros(d)
        Y    == Zeros(d) \o y.m
        lsb  == y.e - (Precision - 1)
    IN  IF x.s = y.s
        THEN LET sum == StripLeading(AddBits(X, Y))
             IN  Round53(x.s, lsb + Len(sum) - 1, sum, FALSE)
        ELSE IF X = Y THEN FZero
        ELSE LET xless == LessBits(X, Y)
                 diff  == StripLeading(IF xless THEN SubBits(Y, X)
                                                ELSE SubBits(X, Y))
             IN  Round53(IF xless THEN y.s ELSE x.s, lsb + Len(diff) - 1,
                         diff, FALSE)

\* Python's float.__add__ on finite values.
FAdd(x, y) ==
    IF IsZero(x) THEN y
    ELSE IF IsZero(y) THEN x
    ELSE IF x.e >= y.e THEN FAddOrdered(x, y)
    ELSE FAddOrdered(y, x)

(***************************************************************************)
(* The registries after the module is imported: the decorators at lines    *)
(* 42, 71, 86 register the tools, those at 134 and 161 the prompts.        *)
(***************************************************************************)
RegisteredTools == <<"get_weather", "sum_numbers", "context_info">>

RegisteredPrompts == <<"weather_report", "calculation_helper">>

\* Positional argument i of a call, or the parameter's default.
Arg(args, i, default) == IF Len(args) >= i THEN args[i] ELSE default

\* dict.get(key, default)
DictGet(d, key, default) == IF key \in DOMAIN d THEN d[key] ELSE default

(***************************************************************************)
(* get_weather                                                             *)
(***************************************************************************)
mock_weather ==
    [c \in {"San Francisco", "New York", "London", "Tokyo"} |->
        CASE c = "San Francisco" -> [temp |-> 185, condition |-> "foggy", humidity |-> 85]
          [] c = "New York"      -> [temp |-> 220, condition |-> "sunny", humidity |-> 60]
          [] c = "London"        -> [temp |-> 120, condition |-> "rainy", humidity |-> 90]
          [] c = "Tokyo"         -> [temp |-> 250, condition |-> "partly cloudy", humidity |-> 70]]

\* A lookup by subscript instead of dict.get: raises KeyError on a miss.
get_weather_subscript(city) ==
    IF city \in DOMAIN mock_weather
    THEN [raised |-> FALSE,
          value  |-> [temperature |-> mock_weather[city].temp,
                      condition   |-> mock_weather[city].condition,
                      humidity    |-> mock_weather[city].humidity,
                      city        |-> city]]
    ELSE [raised |-> TRUE, value |-> "KeyError"]

get_weather(city) ==
    LET weather_info ==
            DictGet(mock_weather, city,
                    [temp |-> 200, condition |-> "unknown", humidity |-> 50])
    IN  [raised |-> FALSE,
         value  |-> [temperature |-> weather_info.temp,
                     condition   |-> weather_info.condition,
                     humidity    |-> weather_info.humidity,
                     city        |-> city]]

(***************************************************************************)
(* sum_numbers                                                             *)
(***************************************************************************)
\* The difference instead of the sum.
sum_numbers_minus(a, b) == FAdd(a, FNeg(b))

sum_numbers(a, b) == FAdd(a, b)

(***************************************************************************)
(* calculation_helper_prompt: the prompt is the concatenation of the       *)
(* pieces of the sequence returned.                                        *)
(***************************************************************************)
ClosingFor(operation) ==
    IF operation = "addition"
    THEN " Please add the numbers and show your work."
    ELSE IF operation = "subtraction"
    THEN " Please subtract the numbers and explain the process."
    ELSE IF operation = "multiplication"
    THEN " Please multiply the numbers and show intermediate steps."
    ELSE IF operation = "division"
    THEN " Please divide the numbers and handle any remainders appropriately."
    ELSE " Please perform the calculation and explain your approach."

\* The chain written with `if` in place of `elif`: the final else then also
\* runs for every operation but division.
calculation_helper_prompt_if(operation, context) ==
    LET base == <<"Please help me with a ", operation, " calculation.">>
        with_context == IF context # "" THEN base \o <<" Context: ", context>>
                        ELSE base
        first == IF operation \in {"addition", "subtraction", "multiplication"}
                 THEN Append(with_context, ClosingFor(operation))
                 ELSE with_context
    IN  IF operation = "division"
        THEN Append(first, ClosingFor(operation))
        ELSE Append(first, ClosingFor("other"))

calculation_helper_prompt(operation, context) ==
    LET base == <<"Please help me with a ", operation, " calculation.">>
        with_context == IF context # "" THEN base \o <<" Context: ", context>>
                        ELSE base
    IN  Append(with_context, ClosingFor(operation))

(***************************************************************************)
(* GET /health                                                             *)
(***************************************************************************)
HealthBody(tools_count, prompts_count) ==
    [status        |-> "healthy",
     server        |-> "ContainerMCPServer",
     transport     |-> "streamable-http",
     tools_count   |-> tools_count,
     prompts_count |-> prompts_count]

\* Without the try/except around the registry reads.
health_check_unguarded(tools_fail, prompts_fail) ==
    IF tools_fail \/ prompts_fail
    THEN [status_code |-> 500, body |-> [status |-> "error"]]
    ELSE [status_code |-> 200,
          body |-> HealthBody(Len(tools),
                              Len(IF has_prompts_attr THEN prompts ELSE <<>>))]

\* tools_fail: mcp.list_tools() raises; prompts_fail: len() of the object
\* found under _prompts raises.
health_check(tools_fail, prompts_fail) ==
    LET tools_count   == IF tools_fail THEN 0 ELSE Len(tools)
        prompts_obj   == IF has_prompts_attr THEN prompts ELSE <<>>
        prompts_count == IF prompts_fail THEN 0 ELSE Len(prompts_obj)
    IN  [status_code |-> 200, body |-> HealthBody(tools_count, prompts_count)]

(***************************************************************************)
(* The synchronous handlers as actions: a request is taken when none is    *)
(* being answered, and `call` holds it with its answer until Respond.      *)
(***************************************************************************)
Tenths == (-MaxTenths)..MaxTenths

Cities == {"San Francisco", "New York", "London", "Tokyo",
           "Unknown City", "Paris", "london", ""}

Operations == {"addition", "subtraction", "multiplication", "division",
               "unknown", "Addition", ""}

Contexts == {"budget calculation", " "}

NoCall == [op |-> "none"]

GetWeather ==
    /\ call = NoCall
    /\ \E args \in {<<>>} \cup {<<c>> : c \in Cities} :
          call' = [op |-> "get_weather", args |-> args,
                   result |-> get_weather(Arg(args, 1, "San Francisco"))]
    /\ UNCHANGED <<tools, prompts, has_prompts_attr>>
    /\ UNCHANGED dvars

SumNumbers ==
    /\ call = NoCall
    /\ \E a \in Tenths, b \in Tenths :
          call' = [op |-> "sum_numbers", args |-> <<a, b>>,
                   result |-> sum_numbers(FromTenths(a), FromTenths(b))]
    /\ UNCHANGED <<tools, prompts, has_prompts_attr>>
    /\ UNCHANGED dvars

CalculationHelper ==
    /\ call = NoCall
    /\ \E args \in {<<>>} \cup {<<o>> : o \in Operations}
                   \cup {<<o, c>> : o \in Operations, c \in Contexts \cup {""}} :
          call' = [op |-> "calculation_helper", args |-> args,
                   result |-> calculation_helper_prompt(Arg(args, 1, "addition"),
                                                        Arg(args, 2, ""))]
    /\ UNCHANGED <<tools, prompts, has_prompts_attr>>
    /\ UNCHANGED dvars

HealthCheck ==
    /\ call = NoCall
    /\ \E tools_fail \in BOOLEAN,
          prompts_fail \in IF has_prompts_attr THEN BOOLEAN ELSE {FALSE} :
          call' = [op |-> "health_check", tools_fail |-> tools_fail,
                   prompts_fail |-> prompts_fail,
                   result |-> health_check(tools_fail, prompts_fail)]
    /\ UNCHANGED <<tools, prompts, has_prompts_attr>>
    /\ UNCHANGED dvars

\* The answer is sent; the handlers keep nothing between two requests.
Respond ==
    /\ call # NoCall
    /\ call' = NoCall
    /\ UNCHANGED <<tools, prompts, has_prompts_attr>>
    /\ UNCHANGED dvars

(***************************************************************************)
(* Startup: the server object is built with json_response=False (line 30); *)
(* run_server overwrites the flag before mcp.run, create_app leaves it.    *)
(***************************************************************************)
\* The flag set whatever the argument is.
run_server_unconditional(json_response_arg) ==
    /\ phase = "init"
    /\ json_response' = TRUE
    /\ cli_json' = json_response_arg
    /\ phase' = "serving"
    /\ UNCHANGED <<policy, sess, chan, pc, rsess, mode, trace, observed,
                   fullMet, absorbedAny, reqid>>
    /\ UNCHANGED tvars

run_server(json_response_arg) ==
    /\ phase = "init"
    /\ json_response' = IF json_response_arg THEN TRUE ELSE json_response
    /\ cli_json' = json_response_arg
    /\ phase' = "serving"
    /\ UNCHANGED <<policy, sess, chan, pc, rsess, mode, trace, observed,
                   fullMet, absorbedAny, reqid>>
    /\ UNCHANGED tvars

RunServer == \E json_response_arg \in BOOLEAN : run_server(json_response_arg)

create_app ==
    /\ phase = "init"
    /\ cli_json' = FALSE
    /\ phase' = "serving"
    /\ UNCHANGED <<json_response, policy, sess, chan, pc, rsess, mode, trace,
                   observed, fullMet, absorbedAny, reqid>>
    /\ UNCHANGED tvars

(***************************************************************************)
(* Sessions, their outbound channels and the invocation context.           *)
(***************************************************************************)
Sessions == 1..NumSessions

Requests == 1..MaxRequests

Policies == {"drop_oldest", "backpressure"}

\* The mode the transport serves a request in: the process-wide flag.
DeliveryMode == IF json_response THEN "buffered" ELSE "streaming"

Event(r, kind, detail) ==
    [req |-> r, seq |-> Len(trace[r]) + 1, kind |-> kind, detail |-> detail]

\* Nothing delivered yet for request r.
NoEvent(r) == [req |-> r, seq |-> 0, kind |-> "none", detail |-> "none"]

IsAdvisory(ev) == ev.kind \in {"log", "progress"}

\* An emit on a closed session is a no-op.
Absorbs(r) == sess[rsess[r]] = "closed"

\* Buffered delivery does not stream log and progress events.
Discards(r, ev) == mode[r] = "buffered" /\ IsAdvisory(ev)

Full(s) == Len(chan[s]) >= ChanCap

HasAdvisory(q) == \E i \in 1..Len(q) : IsAdvisory(q[i])

\* q without its oldest log or progress event.
DropOldestAdvisory(q) ==
    LET i == CHOOSE k \in 1..Len(q) :
                 IsAdvisory(q[k]) /\ \A j \in 1..(k - 1) : ~IsAdvisory(q[j])
    IN  SubSeq(q, 1, i - 1) \o SubSeq(q, i + 1, Len(q))

\* Whether the emit of ev can complete now; under backpressure, and for a
\* Result that finds nothing to drop, it waits for space.
CanEmit(r, ev) ==
    \/ Absorbs(r)
    \/ Discards(r, ev)
    \/ ~Full(rsess[r])
    \/ policy = "drop_oldest" /\ (IsAdvisory(ev) \/ HasAdvisory(chan[rsess[r]]))

\* The channel of r's session after the emit of ev.
Pushed(r, ev) ==
    LET q == chan[rsess[r]]
    IN  IF Absorbs(r) \/ Discards(r, ev) THEN q
        ELSE IF ~Full(rsess[r]) THEN Append(q, ev)
        ELSE IF HasAdvisory(q) THEN Append(DropOldestAdvisory(q), ev)
        ELSE q

\* The emit of ev reaches the channel and finds it full.
MeetsFull(r, ev) == ~Absorbs(r) /\ ~Discards(r, ev) /\ Full(rsess[r])

\* Emits never raise into the callable.
EmitRaises(r, ev) == FALSE

\* One `await ctx.<emit>` of the callable: the event is produced, handed to
\* the session, and the coroutine moves on (or the exception propagates).
AwaitEmit(r, from, to, ev) ==
    /\ pc[r] = from
    /\ CanEmit(r, ev)
    /\ trace' = [trace EXCEPT ![r] = Append(@, ev)]
    /\ chan' = [chan EXCEPT ![rsess[r]] = Pushed(r, ev)]
    /\ fullMet' = (fullMet \/ MeetsFull(r, ev))
    /\ absorbedAny' = (absorbedAny \/ Absorbs(r))
    /\ pc' = [pc EXCEPT ![r] = IF EmitRaises(r, ev) THEN "raised" ELSE to]

Frame ==
    /\ UNCHANGED <<phase, json_response, cli_json, policy, sess, rsess, mode,
                   observed>>
    /\ UNCHANGED tvars

(***************************************************************************)
(* Dispatch of a context_info request and the steps of its coroutine.      *)
(***************************************************************************)
Dispatch(r, s) ==
    /\ phase = "serving"
    /\ pc[r] = "idle"
    /\ \A q \in 1..(r - 1) : pc[q] # "idle"
    /\ sess[s] = "open"
    /\ \A t \in 1..(s - 1) : sess[t] = "closed" \/ \E q \in Requests : rsess[q] = t
    /\ pc' = [pc EXCEPT ![r] = "info"]
    /\ rsess' = [rsess EXCEPT ![r] = s]
    /\ mode' = [mode EXCEPT ![r] = DeliveryMode]
    /\ UNCHANGED <<phase, json_response, cli_json, policy, sess, chan, trace,
                   observed, fullMet, absorbedAny, reqid>>
    /\ UNCHANGED tvars

\* `ctx.info(...)` without await: the coroutine is never run.
InfoStep_NotAwaited(r) ==
    /\ pc[r] = "info"
    /\ pc' = [pc EXCEPT ![r] = "debug"]
    /\ UNCHANGED <<trace, chan, fullMet, absorbedAny, reqid>>
    /\ Frame

InfoStep(r) ==
    /\ AwaitEmit(r, "info", "debug", Event(r, "log", "info"))
    /\ UNCHANGED reqid
    /\ Frame

\* The callable looks at its session and raises when it is closed.
DebugStep_RaisesWhenClosed(r) ==
    /\ pc[r] = "debug"
    /\ IF Absorbs(r)
       THEN /\ pc' = [pc EXCEPT ![r] = "raised"]
            /\ UNCHANGED <<trace, chan, fullMet, absorbedAny>>
       ELSE AwaitEmit(r, "debug", "progress1", Event(r, "log", "debug"))
    /\ UNCHANGED reqid
    /\ Frame

DebugStep(r) ==
    /\ AwaitEmit(r, "debug", "progress1", Event(r, "log", "debug"))
    /\ UNCHANGED reqid
    /\ Frame

\* The two progress reports written in the wrong order.
Progress1Step_Complete(r) ==
    /\ AwaitEmit(r, "progress1", "progress2", Event(r, "progress", "1.0/1.0"))
    /\ UNCHANGED reqid
    /\ Frame

Progress1Step(r) ==
    /\ AwaitEmit(r, "progress1", "progress2", Event(r, "progress", "0.5/1.0"))
    /\ UNCHANGED reqid
    /\ Frame

\* The callable waits for its session's channel to be flushed first.
Progress2Step_WaitsForFlush(r) ==
    /\ pc[r] = "progress2"
    /\ sess[rsess[r]] = "open"
    /\ chan[rsess[r]] = <<>>
    /\ AwaitEmit(r, "progress2", "returned", Event(r, "progress", "1.0/1.0"))
    /\ reqid' = [reqid EXCEPT ![r] = r]
    /\ Frame

\* Lines 110-130: the request id is read, the last progress is reported and
\* the CallToolResult is returned.
Progress2Step(r) ==
    /\ AwaitEmit(r, "progress2", "returned", Event(r, "progress", "1.0/1.0"))
    /\ reqid' = [reqid EXCEPT ![r] = r]
    /\ Frame

\* The dispatcher turns the callable's return value (or its exception) into
\* the terminal Result and closes the context.
ResultStep(r) ==
    /\ pc[r] \in {"returned", "raised"}
    /\ LET ev == Event(r, "result", IF pc[r] = "raised" THEN "error" ELSE "ok")
       IN  /\ CanEmit(r, ev)
           /\ trace' = [trace EXCEPT ![r] = Append(@, ev)]
           /\ chan' = [chan EXCEPT ![rsess[r]] = Pushed(r, ev)]
           /\ fullMet' = (fullMet \/ MeetsFull(r, ev))
           /\ absorbedAny' = (absorbedAny \/ Absorbs(r))
    /\ absorbedAny' = (absorbedAny \/ Absorbs(r))
    /\ pc' = [pc EXCEPT ![r] = "done"]
    /\ UNCHANGED reqid
    /\ Frame

EmitPcs == {"info", "debug", "progress1", "progress2", "returned"}

\* An emit finds the channel full and the coroutine is suspended on it.
SuspendOnFull(r) ==
    /\ pc[r] \in EmitPcs
    /\ sess[rsess[r]] = "open"
    /\ mode[r] = "streaming"
    /\ Full(rsess[r])
    /\ policy = "backpressure"
    /\ ~fullMet
    /\ fullMet' = TRUE
    /\ UNCHANGED <<pc, trace, chan, absorbedAny, reqid>>
    /\ Frame

\* The transport writes the oldest queued event to the client.
Drain(s) ==
    /\ sess[s] = "open"
    /\ chan[s] # <<>>
    /\ observed' = [observed EXCEPT ![Head(chan[s]).req] = Head(chan[s])]
    /\ chan' = [chan EXCEPT ![s] = Tail(@)]
    /\ UNCHANGED <<phase, json_response, cli_json, policy, sess, pc, rsess,
                   mode, trace, fullMet, absorbedAny, reqid>>
    /\ UNCHANGED tvars

\* The client goes away: what is still queued is never delivered.  (Sessions
\* are interchangeable and one that never carried a request has no effect
\* when it goes, so only sessions that carried one are followed.)
Disconnect(s) ==
    /\ phase = "serving"
    /\ sess[s] = "open"
    /\ \E r \in Requests : rsess[r] = s
    /\ sess' = [sess EXCEPT ![s] = "closed"]
    /\ chan' = [chan EXCEPT ![s] = <<>>]
    /\ UNCHANGED <<phase, json_response, cli_json, policy, pc, rsess, mode,
                   trace, observed, fullMet, absorbedAny, reqid>>
    /\ UNCHANGED tvars

(***************************************************************************)
(* Specifications.                                                         *)
(***************************************************************************)
\* The state once the module is imported, but for the two facts of the
\* environment: has_prompts_attr and policy.
Imported ==
    /\ call = NoCall
    /\ tools = RegisteredTools
    /\ prompts = RegisteredPrompts
    /\ phase = "init"
    /\ json_response = FALSE
    /\ cli_json = FALSE
    /\ sess = [s \in Sessions |-> "open"]
    /\ chan = [s \in Sessions |-> <<>>]
    /\ pc = [r \in Requests |-> "idle"]
    /\ rsess = [r \in Requests |-> 0]
    /\ mode = [r \in Requests |-> "none"]
    /\ trace = [r \in Requests |-> <<>>]
    /\ observed = [r \in Requests |-> NoEvent(r)]
    /\ fullMet = FALSE
    /\ absorbedAny = FALSE
    /\ reqid = [r \in Requests |-> 0]

\* The dispatch actions never read has_prompts_attr.
Init == Imported /\ policy \in Policies /\ has_prompts_attr = FALSE

\* The synchronous handlers never read policy.
ToolsInit == Imported /\ policy = "backpressure" /\ has_prompts_attr \in BOOLEAN

CallableNext(r) ==
    \/ InfoStep(r)
    \/ DebugStep(r)
    \/ Progress1Step(r)
    \/ Progress2Step(r)

Next ==
    \/ RunServer
    \/ create_app
    \/ \E r \in Requests, s \in Sessions : Dispatch(r, s)
    \/ \E r \in Requests : CallableNext(r)
    \/ \E r \in Requests : ResultStep(r)
    \/ \E r \in Requests : SuspendOnFull(r)
    \/ \E s \in Sessions : Drain(s)
    \/ \E s \in Sessions : Disconnect(s)

Spec == Init /\ [][Next]_vars

Fairness ==
    /\ \A r \in Requests : WF_vars(CallableNext(r))
    /\ \A r \in Requests : WF_vars(ResultStep(r))
    /\ \A s \in Sessions : WF_vars(Drain(s))

LiveSpec == Spec /\ Fairness

ToolsNext ==
    \/ GetWeather
    \/ SumNumbers
    \/ CalculationHelper
    \/ HealthCheck
    \/ Respond

ToolsSpec == ToolsInit /\ [][ToolsNext]_vars

(***************************************************************************)
(* Properties.                                                             *)
(***************************************************************************)
Started(r) == pc[r] # "idle"

InFlight(r) == pc[r] \notin {"idle", "done"}

\* The events of one context_info invocation, in the order of its code.
EmissionOrder ==
    << [kind |-> "log",      detail |-> "info"],
       [kind |-> "log",      detail |-> "debug"],
       [kind |-> "progress", detail |-> "0.5/1.0"],
       [kind |-> "progress", detail |-> "1.0/1.0"],
       [kind |-> "result",   detail |-> "ok"] >>

ResultIndexes(r) == {i \in 1..Len(trace[r]) : trace[r][i].kind = "result"}

\* C1: every context_info invocation produces at most one Result, exactly
\* one once it has completed; the Result is the last event produced for its
\* request id and the info log, the debug log and the two progress events,
\* in this order, are all produced before it.
C1_OneResultLast ==
    \A r \in Requests :
        /\ Cardinality(ResultIndexes(r)) <= 1
        /\ (pc[r] = "done") <=> (ResultIndexes(r) # {})
        /\ ResultIndexes(r) # {} =>
              /\ ResultIndexes(r) = {Len(trace[r])}
              /\ Len(trace[r]) = 5
              /\ \A i \in 1..5 :
                    /\ trace[r][i].req = r
                    /\ trace[r][i].seq = i
                    /\ trace[r][i].kind = EmissionOrder[i].kind
                    /\ trace[r][i].detail = EmissionOrder[i].detail

\* An invocation has completed and the client has received its Result.
C1_Witness ==
    \E r \in Requests :
        /\ pc[r] = "done"
        /\ Len(trace[r]) = 5
        /\ observed[r].kind = "result"

Completed(r) ==
    /\ pc[r] = "done"
    /\ trace[r][Len(trace[r])].kind = "result"
    /\ trace[r][Len(trace[r])].detail = "ok"

NoFault ==
    \A r \in Requests :
        /\ pc[r] # "raised"
        /\ \A i \in 1..Len(trace[r]) : trace[r][i].detail # "error"

\* C3: once a session has disconnected, no emit of an invocation raises (no
\* invocation ends in an error) and nothing is queued on the closed
\* session; every invocation in flight, on the disconnected session or on
\* another one, runs to completion with its own Result.
C3_DisconnectAbsorbed ==
    /\ [](NoFault /\ \A s \in Sessions : sess[s] = "closed" => chan[s] = <<>>)
    /\ \A r \in Requests, s \in Sessions :
          (InFlight(r) /\ sess[s] = "closed") ~> Completed(r)

\* An emit was absorbed by a closed session, every invocation of a closed
\* session has completed, and an invocation of a session still open has had
\* its Result delivered.
C3_Witness ==
    /\ absorbedAny
    /\ \E r1, r2 \in Requests :
          /\ Completed(r1) /\ sess[rsess[r1]] = "closed"
          /\ Completed(r2) /\ sess[rsess[r2]] = "open"
          /\ observed[r2].kind = "result"
    /\ \A r \in Requests :
          (Started(r) /\ sess[rsess[r]] = "closed") => Completed(r)

\* C4: under fair scheduling every started invocation eventually produces
\* its Result, also when an emit meets a full channel.
C4_ResultEventually ==
    \A r \in Requests : Started(r) ~> (pc[r] = "done" /\ ResultIndexes(r) # {})

\* An emit met a full channel and every started invocation has completed.
C4_Witness ==
    /\ fullMet
    /\ \E r \in Requests : Started(r)
    /\ \A r \in Requests : Started(r) => Completed(r)

SelectedMode == IF cli_json THEN "buffered" ELSE "streaming"

\* C6: once the server is serving, the flag is the one selected at startup
\* and every invocation is served in the mode that flag selects.
C6_ModeFixedAtStartup ==
    phase = "serving" =>
        /\ json_response = cli_json
        /\ \A r \in Requests : Started(r) => mode[r] = SelectedMode

\* Started with the flag set, the server has served two invocations.
C6_Witness ==
    /\ phase = "serving"
    /\ cli_json
    /\ \E r1, r2 \in Requests :
          r1 # r2 /\ Completed(r1) /\ Completed(r2) /\ mode[r1] = "buffered"


\* C5: the counts the health endpoint reports are the sizes of the
\* registries: 3 tools and 2 prompts in every answer.
C5_HealthCountsAreRegistrySizes ==
    call.op = "health_check" =>
        /\ call.result.body.tools_count = Len(RegisteredTools)
        /\ call.result.body.tools_count = 3
        /\ call.result.body.prompts_count = Len(RegisteredPrompts)
        /\ call.result.body.prompts_count = 2

KnownCities == {"San Francisco", "New York", "London", "Tokyo"}

\* C7: get_weather never raises; the city returned is the city asked for
\* ("San Francisco" when no argument is given); a known city gets its table
\* entry and every other city name gets 20.0, "unknown", 50.
C7_WeatherLookup ==
    call.op = "get_weather" =>
        LET city == IF call.args = <<>> THEN "San Francisco" ELSE call.args[1]
            w    == call.result.value
        IN  /\ ~call.result.raised
            /\ w.city = city
            /\ city \notin KnownCities =>
                  w.temperature = 200 /\ w.condition = "unknown" /\ w.humidity = 50
            /\ city = "San Francisco" =>
                  w.temperature = 185 /\ w.condition = "foggy" /\ w.humidity = 85
            /\ city = "New York" =>
                  w.temperature = 220 /\ w.condition = "sunny" /\ w.humidity = 60
            /\ city = "London" =>
                  w.temperature = 120 /\ w.condition = "rainy" /\ w.humidity = 90
            /\ city = "Tokyo" =>
                  w.temperature = 250 /\ w.condition = "partly cloudy" /\ w.humidity = 70

\* get_weather was asked for a city that is not in the table and answered
\* with the default payload.
C7_Witness ==
    /\ call.op = "get_weather"
    /\ call.args = <<"Unknown City">>
    /\ call.result.value.condition = "unknown"
    /\ call.result.value.city = "Unknown City"

\* C8 as stated: the result is the decimal sum of the two decimal inputs,
\* for every pair.
C8_SumIsDecimalSum ==
    call.op = "sum_numbers" =>
        call.result = FromTenths(call.args[1] + call.args[2])

\* C8 as amended: the result is the float sum, which does not depend on the
\* order of the arguments, is the decimal sum when both inputs are integers,
\* and is 5 for (2,3), 0 for (-1,1), 0 for (0,0) and 6.2 for (2.5,3.7).
C8_SumIsFloatSum ==
    call.op = "sum_numbers" =>
        LET a == call.args[1]
            b == call.args[2]
        IN  /\ call.result = sum_numbers(FromTenths(b), FromTenths(a))
            /\ (a % 10 = 0 /\ b % 10 = 0) => call.result = FromTenths(a + b)
            /\ (a = 20 /\ b = 30) => call.result = FromTenths(50)
            /\ (a = -10 /\ b = 10) => IsZero(call.result)
            /\ (a = 0 /\ b = 0) => IsZero(call.result)
            /\ (a = 25 /\ b = 37) => call.result = FromTenths(62)

\* sum_numbers(2.5, 3.7) has answered 6.2.
C8_Witness ==
    /\ call.op = "sum_numbers"
    /\ call.args = <<25, 37>>
    /\ call.result = FromTenths(62)

\* C9: the health endpoint always answers 200 with status "healthy", the
\* server name, the transport and both counts; a registry read that fails
\* gives the count 0; the registries are what they were at startup.
C9_HealthAlwaysAnswers ==
    call.op = "health_check" =>
        LET body == call.result.body
        IN  /\ call.result.status_code = 200
            /\ DOMAIN body = {"status", "server", "transport", "tools_count",
                              "prompts_count"}
            /\ body.status = "healthy"
            /\ body.server = "ContainerMCPServer"
            /\ body.transport = "streamable-http"
            /\ call.tools_fail => body.tools_count = 0
            /\ call.prompts_fail => body.prompts_count = 0
            /\ tools = RegisteredTools
            /\ prompts = RegisteredPrompts

\* The health endpoint has answered a request during which reading the tool
\* registry failed.
C9_Witness ==
    /\ call.op = "health_check"
    /\ call.tools_fail
    /\ call.result.body.status = "healthy"
    /\ call.result.body.tools_count = 0

Closings ==
    {" Please add the numbers and show your work.",
     " Please subtract the numbers and explain the process.",
     " Please multiply the numbers and show intermediate steps.",
     " Please divide the numbers and handle any remainders appropriately.",
     " Please perform the calculation and explain your approach."}

\* C10: the prompt is the base sentence naming the operation, then
\* " Context: <context>" exactly when the context is not empty, then exactly
\* one closing instruction: the operation's own for the four known
\* operations, the generic one for every other operation.
C10_PromptShape ==
    call.op = "calculation_helper" =>
        LET operation == IF Len(call.args) >= 1 THEN call.args[1] ELSE "addition"
            context   == IF Len(call.args) >= 2 THEN call.args[2] ELSE ""
            p         == call.result
            n         == Len(p)
        IN  /\ n >= 4
            /\ SubSeq(p, 1, 3) = <<"Please help me with a ", operation, " calculation.">>
            /\ context # "" <=> n = 6
            /\ context = "" <=> n = 4
            /\ n = 6 => p[4] = " Context: " /\ p[5] = context
            /\ Cardinality({i \in 1..n : p[i] \in Closings}) = 1
            /\ operation = "addition" =>
                  p[n] = " Please add the numbers and show your work."
            /\ operation = "subtraction" =>
                  p[n] = " Please subtract the numbers and explain the process."
            /\ operation = "multiplication" =>
                  p[n] = " Please multiply the numbers and show intermediate steps."
            /\ operation = "division" =>
                  p[n] = " Please divide the numbers and handle any remainders appropriately."
            /\ operation \notin {"addition", "subtraction", "multiplication", "division"} =>
                  p[n] = " Please perform the calculation and explain your approach."

\* The prompt for a multiplication with a context has been rendered.
C10_Witness ==
    /\ call.op = "calculation_helper"
    /\ call.args = <<"multiplication", "budget calculation">>
    /\ Len(call.result) = 6
    /\ call.result[5] = "budget calculation"


=============================================================================
